---- MODULE Spec2Model ----
(***************************************************************************)
(* ApiGatewayRouter (apiGateway/router.ts): a prioritized list of routing  *)
(* rules, sorted at construction and at every updateRules, scanned by      *)
(* routeRequest.                                                           *)
(*                                                                         *)
(* JavaScript strings are modelled as sequences of one-character strings,  *)
(* <<"/", "a">> for "/a", so that startsWith, substring, length and        *)
(* toUpperCase are computed and not assumed.  An optional field of a rule  *)
(* that is not given is absent from the record's DOMAIN.                   *)
(***************************************************************************)
EXTENDS Integers, Sequences, FiniteSets, TLC

VARIABLES
    rules,      \* ApiGatewayRouter._rules, the active sorted list
    newRules,   \* the sequence last handed to the constructor / updateRules
    request,    \* the argument of the last routeRequest, or NoRequest
    result,     \* what that routeRequest returned, or NoResult
    observed,   \* the first call made since the last update, or NoCall
    oldRules,   \* [rules |-> the list the last updateRules replaced], or NoUpdate
    heap,       \* the array objects: reference |-> elements
    rulesRef,   \* the array this._rules refers to
    callerRef,  \* the caller's array, the one it hands to updateRules
    viewRef,    \* the array the rules accessor returned to the caller, or NoRef
    pc,         \* "idle", or "sorting" between the two statements of updateRules
    scanned,    \* the list the last routeRequest iterated over, or NoScan
    currentRules,   \* simulator: the rules on display (React state)
    rulesJsonInput, \* simulator: the text of the rules editor
    jsonError,      \* simulator: the error message on display, or NoError
    bookings,       \* the rows of the bookings table, in the order inserted
    availability,   \* the last checkPropertyAvailability call made directly
                    \* and its response, or NoCheck
    calls,          \* the createBooking call of each caller: where it stands
    payments,       \* the rows of the payments table: payment id |-> row
    intents,        \* Stripe: payment intent id |-> status
    refunds,        \* Stripe: the payment intents refunded, in order
    payCall         \* the last PaymentService call and its response, or NoCall

heapVars == <<heap, rulesRef, callerRef, viewRef>>

stepVars == <<pc, scanned>>

simVars == <<currentRules, rulesJsonInput, jsonError>>

bookVars == <<bookings, availability, calls>>

payVars == <<payments, intents, refunds, payCall>>

appVars == <<simVars, bookVars, payVars>>

vars == <<rules, newRules, request, result, observed, oldRules, heapVars, stepVars, appVars>>

(***************************************************************************)
(* Bounds                                                                  *)
(***************************************************************************)
MaxRules == 2

(***************************************************************************)
(* Strings                                                                 *)
(***************************************************************************)
toUpperCaseChar(c) ==
    CASE c = "g" -> "G"
      [] c = "e" -> "E"
      [] c = "t" -> "T"
      [] c = "p" -> "P"
      [] c = "o" -> "O"
      [] c = "s" -> "S"
      [] OTHER -> c

toUpperCase(s) == [i \in 1..Len(s) |-> toUpperCaseChar(s[i])]

\* a proper prefix only: the string itself does not count
startsWithProper(s, p) == Len(p) < Len(s) /\ SubSeq(s, 1, Len(p)) = p

startsWith(s, p) == Len(p) <= Len(s) /\ SubSeq(s, 1, Len(p)) = p

substring(s, n) == SubSeq(s, n + 1, Len(s))

\* JavaScript truthiness of an optional string field: present and non-empty
truthy(rule, field) == field \in DOMAIN rule /\ rule[field] # <<>>

\* a.exactPath || a.pathPrefix || ''
orElse(rule, first, second) ==
    IF truthy(rule, first) THEN rule[first]
    ELSE IF truthy(rule, second) THEN rule[second]
    ELSE <<>>

\* a.priority ?? 0
priorityOrZero(rule) == IF "priority" \in DOMAIN rule THEN rule.priority ELSE 0

(***************************************************************************)
(* _sortRules: Array.prototype.sort with the comparator of the source.     *)
(***************************************************************************)
\* priorities compared in ascending order
compareAscending(a, b) ==
    LET priorityA == priorityOrZero(a)
        priorityB == priorityOrZero(b)
        aIsExact  == truthy(a, "exactPath")
        bIsExact  == truthy(b, "exactPath")
        pathA     == orElse(a, "exactPath", "pathPrefix")
        pathB     == orElse(b, "exactPath", "pathPrefix")
    IN  IF priorityB # priorityA THEN priorityA - priorityB
        ELSE IF aIsExact /\ ~bIsExact THEN -1
        ELSE IF ~aIsExact /\ bIsExact THEN 1
        ELSE IF Len(pathB) # Len(pathA) THEN Len(pathB) - Len(pathA)
        ELSE 0

\* the exact-over-prefix step left out: path length decides
compareLengthOnly(a, b) ==
    LET priorityA == priorityOrZero(a)
        priorityB == priorityOrZero(b)
        pathA     == orElse(a, "exactPath", "pathPrefix")
        pathB     == orElse(b, "exactPath", "pathPrefix")
    IN  IF priorityB # priorityA THEN priorityB - priorityA
        ELSE IF Len(pathB) # Len(pathA) THEN Len(pathB) - Len(pathA)
        ELSE 0

\* shorter paths first
compareShorterFirst(a, b) ==
    LET priorityA == priorityOrZero(a)
        priorityB == priorityOrZero(b)
        aIsExact  == truthy(a, "exactPath")
        bIsExact  == truthy(b, "exactPath")
        pathA     == orElse(a, "exactPath", "pathPrefix")
        pathB     == orElse(b, "exactPath", "pathPrefix")
    IN  IF priorityB # priorityA THEN priorityB - priorityA
        ELSE IF aIsExact /\ ~bIsExact THEN -1
        ELSE IF ~aIsExact /\ bIsExact THEN 1
        ELSE IF Len(pathB) # Len(pathA) THEN Len(pathA) - Len(pathB)
        ELSE 0

compare(a, b) ==
    LET priorityA == priorityOrZero(a)
        priorityB == priorityOrZero(b)
        aIsExact  == truthy(a, "exactPath")
        bIsExact  == truthy(b, "exactPath")
        pathA     == orElse(a, "exactPath", "pathPrefix")
        pathB     == orElse(b, "exactPath", "pathPrefix")
    IN  IF priorityB # priorityA THEN priorityB - priorityA
        ELSE IF aIsExact /\ ~bIsExact THEN -1
        ELSE IF ~aIsExact /\ bIsExact THEN 1
        ELSE IF Len(pathB) # Len(pathA) THEN Len(pathB) - Len(pathA)
        ELSE 0

\* an element goes before the elements it ties with: ties come out reversed
insertSortedBeforeTies(sorted, x) ==
    LET before == {i \in 1..Len(sorted) : compare(sorted[i], x) < 0}
        k == IF before = {} THEN 0
             ELSE CHOOSE i \in before : \A j \in before : j <= i
    IN  SubSeq(sorted, 1, k) \o <<x>> \o SubSeq(sorted, k + 1, Len(sorted))

\* Array.prototype.sort is stable: an element goes after every element
\* already placed that does not compare greater than it.
insertSorted(sorted, x) ==
    LET before == {i \in 1..Len(sorted) : compare(sorted[i], x) <= 0}
        k == IF before = {} THEN 0
             ELSE CHOOSE i \in before : \A j \in before : j <= i
    IN  SubSeq(sorted, 1, k) \o <<x>> \o SubSeq(sorted, k + 1, Len(sorted))

\* the elements are placed from the last to the first: ties come out reversed
RECURSIVE sortFromBackwards(_, _, _)
sortFromBackwards(sorted, rs, i) ==
    IF i > Len(rs) THEN sorted
    ELSE sortFromBackwards(insertSorted(sorted, rs[Len(rs) + 1 - i]), rs, i + 1)

RECURSIVE sortFrom(_, _, _)
sortFrom(sorted, rs, i) ==
    IF i > Len(rs) THEN sorted
    ELSE sortFrom(insertSorted(sorted, rs[i]), rs, i + 1)

\* the list left in the order it was given
sortRulesSkipped(rs) == rs

sortRules(rs) == sortFrom(<<>>, rs, 1)

(***************************************************************************)
(* routeRequest: the per-rule tests and the scan.                          *)
(***************************************************************************)
Null == [null |-> TRUE]

\* the methods compared without toUpperCase
methodMismatchCaseSensitive(rule, req) ==
    /\ truthy(rule, "method")
    /\ rule.method # req.method

\* rule.method && rule.method.toUpperCase() !== request.method.toUpperCase()
methodMismatch(rule, req) ==
    /\ truthy(rule, "method")
    /\ toUpperCase(rule.method) # toUpperCase(req.method)

\* the exact path tested with startsWith
pathMatchesExactAsPrefix(rule, req) ==
    IF truthy(rule, "exactPath") THEN startsWith(req.path, rule.exactPath)
    ELSE IF truthy(rule, "pathPrefix") THEN startsWith(req.path, rule.pathPrefix)
    ELSE FALSE

\* the prefix is tried when the exact path did not match
pathMatchesFallThrough(rule, req) ==
    \/ truthy(rule, "exactPath") /\ req.path = rule.exactPath
    \/ truthy(rule, "pathPrefix") /\ startsWith(req.path, rule.pathPrefix)

\* a rule without a path matches every path (pathMatches starts as true)
pathMatchesWithoutPath(rule, req) ==
    IF truthy(rule, "exactPath") THEN req.path = rule.exactPath
    ELSE IF truthy(rule, "pathPrefix") THEN startsWith(req.path, rule.pathPrefix)
    ELSE TRUE

\* the value of pathMatches after the exactPath / pathPrefix branches
pathMatches(rule, req) ==
    IF truthy(rule, "exactPath") THEN req.path = rule.exactPath
    ELSE IF truthy(rule, "pathPrefix") THEN startsWith(req.path, rule.pathPrefix)
    ELSE FALSE

\* the remainder forwarded without a leading "/" put in front
targetPathNotPrepended(rule, req) ==
    IF truthy(rule, "exactPath") THEN req.path
    ELSE IF truthy(rule, "pathPrefix") /\ startsWith(req.path, rule.pathPrefix) THEN
        LET strippedPath == substring(req.path, Len(rule.pathPrefix))
        IN  IF strippedPath = <<>> THEN <<"/">> ELSE strippedPath
    ELSE req.path

\* the value of targetPathForService when pathMatches is true
targetPathForService(rule, req) ==
    IF truthy(rule, "exactPath") THEN req.path
    ELSE IF truthy(rule, "pathPrefix") /\ startsWith(req.path, rule.pathPrefix) THEN
        LET strippedPath == substring(req.path, Len(rule.pathPrefix))
        IN  IF strippedPath = <<>> THEN <<"/">>
            ELSE IF ~startsWith(strippedPath, <<"/">>) THEN <<"/">> \o strippedPath
            ELSE strippedPath
    ELSE req.path

\* a method mismatch ends the scan (break for continue)
RECURSIVE scanRulesBreak(_, _, _)
scanRulesBreak(rs, req, i) ==
    IF i > Len(rs) THEN Null
    ELSE LET rule == rs[i]
         IN  IF methodMismatch(rule, req) THEN Null
             ELSE IF pathMatches(rule, req)
                  THEN [targetService |-> rule.targetService,
                        targetPath    |-> targetPathForService(rule, req)]
                  ELSE scanRulesBreak(rs, req, i + 1)

\* for (const rule of this._rules) { ... }  return null
RECURSIVE scanRules(_, _, _)
scanRules(rs, req, i) ==
    IF i > Len(rs) THEN Null
    ELSE LET rule == rs[i]
         IN  IF methodMismatch(rule, req) THEN scanRules(rs, req, i + 1)
             ELSE IF pathMatches(rule, req)
                  THEN [targetService |-> rule.targetService,
                        targetPath    |-> targetPathForService(rule, req)]
                  ELSE scanRules(rs, req, i + 1)

\* a default result in place of null
routeRequestDefault(rs, req) ==
    IF scanRules(rs, req, 1) = Null
    THEN [targetService |-> "defaultService", targetPath |-> req.path]
    ELSE scanRules(rs, req, 1)

routeRequest(rs, req) == scanRules(rs, req, 1)

\* the rules of the old list whose id is not in the new list are kept
updateRulesMerge(old, new) ==
    LET ids == {new[i].id : i \in 1..Len(new)}
        keep(rule) == rule.id \notin ids
    IN  sortRules(new \o SelectSeq(old, keep))

\* rules without a path and rules whose id was seen before are left out
updateRulesValidated(old, new) ==
    LET valid(i) == /\ truthy(new[i], "exactPath") \/ truthy(new[i], "pathPrefix")
                    /\ \A k \in 1..(i - 1) : new[k].id # new[i].id
        kept == {i \in 1..Len(new) : valid(i)}
        RECURSIVE take(_)
        take(i) == IF i > Len(new) THEN <<>>
                   ELSE IF i \in kept THEN <<new[i]>> \o take(i + 1)
                   ELSE take(i + 1)
    IN  sortRules(take(1))

\* this._rules = [...newRules]; this._sortRules()
updateRules(old, new) == sortRules(new)

\* this._rules = []; this.updateRules(rules)
constructor(rs) == updateRules(<<>>, rs)

(***************************************************************************)
(* Inputs: the rules of the test-suite, with paths shortened to the        *)
(* alphabet "/", "a", "b" ("/a" for "/admin", "/a/b" for "/users/admin").  *)
(***************************************************************************)
GET      == <<"G", "E", "T">>
get      == <<"g", "e", "t">>
POST     == <<"P", "O", "S", "T">>
Root     == <<"/">>
PathA    == <<"/", "a">>
PathAB   == <<"/", "a", "/", "b">>
PathAb   == <<"/", "a", "b">>

RulePool ==
    { [id |-> "root-default", pathPrefix |-> Root, targetService |-> "defaultService",
       priority |-> 0],
      [id |-> "a-exact", exactPath |-> PathA, method |-> GET,
       targetService |-> "exactService"],
      [id |-> "a-prefix", pathPrefix |-> PathA, method |-> get,
       targetService |-> "prefixService", priority |-> 1],
      [id |-> "a-prefix-any", pathPrefix |-> PathA, targetService |-> "anyService",
       priority |-> 1],
      [id |-> "ab-prefix", pathPrefix |-> PathAB, targetService |-> "deepService"],
      [id |-> "ab-both", exactPath |-> PathAB, pathPrefix |-> PathA,
       targetService |-> "bothService", priority |-> -1],
      [id |-> "dead", targetService |-> "deadService", priority |-> 2],
      [id |-> "empty", exactPath |-> <<>>, pathPrefix |-> <<>>, method |-> <<>>,
       targetService |-> "emptyService", priority |-> 1] }

RECURSIVE SeqsUpTo(_, _)
SeqsUpTo(S, n) ==
    IF n = 0 THEN {<<>>}
    ELSE LET shorter == SeqsUpTo(S, n - 1)
         IN  shorter \cup {Append(q, x) : q \in shorter, x \in S}

RuleLists == SeqsUpTo(RulePool, MaxRules)

Requests == [path : {Root, PathA, PathAB, PathAb}, method : {GET, get, POST}]

\* every combination of present, empty and absent optional fields, for the
\* routers that hold a single rule
Optional(field, values) == {<<>>} \cup {field :> v : v \in values}

RuleUniverse ==
    { [id |-> "rule", targetService |-> "service"] @@ e @@ p @@ m :
        e \in Optional("exactPath", {<<>>, Root, PathA, PathAB}),
        p \in Optional("pathPrefix", {<<>>, Root, PathA, PathAB}),
        m \in Optional("method", {<<>>, GET, get, POST}) }

SingleRuleLists == {<<r>> : r \in RuleUniverse}

PathUpperA == <<"/", "A">>
PathASlash == <<"/", "a", "/">>
PathSlashSlashA == <<"/", "/", "a">>
Get        == <<"G", "e", "t">>

AllRequests ==
    [path : {Root, PathA, PathAB, PathAb, PathUpperA, PathASlash, PathSlashSlashA},
     method : {GET, get, Get, POST}]

\* a small configuration for the runs that also record an earlier call
FewRules == {r \in RulePool : r.id \in {"root-default", "a-exact", "a-prefix"}}

FewRuleLists == SeqsUpTo(FewRules, MaxRules)

FewRequests == [path : {Root, PathA, PathAB}, method : {GET, POST}]

TiedRules == {r \in RulePool : r.id \in {"root-default", "a-prefix", "a-prefix-any"}}

TiedRuleLists == SeqsUpTo(TiedRules, MaxRules)

NoRequest == [none |-> TRUE]
NoResult  == [none |-> TRUE]
NoCall    == [none |-> TRUE]
NoUpdate  == [none |-> TRUE]
NoScan    == [none |-> TRUE]

StepsUnused == pc = "idle" /\ scanned = NoScan

NoError == [none |-> TRUE]

Err(message) == [message |-> message]

SimUnused == currentRules = <<>> /\ rulesJsonInput = <<>> /\ jsonError = NoError

NoCheck == [none |-> TRUE]

Callers == {"c1", "c2"}

Idle == [pc |-> "idle"]

BookUnused ==
    bookings = <<>> /\ availability = NoCheck /\ calls = [c \in Callers |-> Idle]

PayUnused ==
    payments = <<>> /\ intents = <<>> /\ refunds = <<>> /\ payCall = NoCall

AppUnused == SimUnused /\ BookUnused /\ PayUnused

(***************************************************************************)
(* Arrays as objects.  The router and its caller hold references; two      *)
(* references to the same array see each other's changes.  Three arrays    *)
(* can be alive at once: the caller's, this._rules, and an array the       *)
(* accessor returned earlier.  An array no reference leads to is cleared.  *)
(***************************************************************************)
Refs  == {"r1", "r2", "r3"}
NoRef == "none"

EmptyHeap == [r \in Refs |-> <<>>]

HeapUnused ==
    /\ heap = EmptyHeap
    /\ rulesRef = NoRef
    /\ callerRef = NoRef
    /\ viewRef = NoRef

Collect(h, live) == [r \in Refs |-> IF r \in live THEN h[r] ELSE <<>>]

\* this._rules = newRules: the caller's array itself, sorted in place
updateRulesHeapAliased(h, fresh, argRef) ==
    [heap |-> [h EXCEPT ![argRef] = sortRules(h[argRef])], rulesRef |-> argRef]

\* this._rules = [...newRules] makes the new array fresh; this._sortRules()
\* sorts that array in place
updateRulesHeap(h, fresh, argRef) ==
    [heap |-> [h EXCEPT ![fresh] = sortRules(h[argRef])], rulesRef |-> fresh]

\* get rules() { return this._rules }
rulesGetter(ref) == ref

\* what a holder of an array can do to it: push, pop, reverse, replace
HeapRules == {r \in RulePool : r.id \in {"root-default", "a-exact"}}

HeapLists == SeqsUpTo(HeapRules, MaxRules)

HeapRequests == [path : {Root, PathA}, method : {GET, POST}]

Reverse(arr) == [i \in 1..Len(arr) |-> arr[Len(arr) + 1 - i]]

Mutations(arr) ==
    {m \in {Append(arr, r) : r \in HeapRules} : Len(m) <= MaxRules}
    \cup {SubSeq(arr, 1, Len(arr) - 1) : k \in {1} \cap 1..Len(arr)}
    \cup {Reverse(arr) : k \in {2} \cap 1..Len(arr)}
    \cup {[arr EXCEPT ![1] = r] : r \in {x \in HeapRules : Len(arr) > 0}}

(***************************************************************************)
(* The router as a state machine                                           *)
(***************************************************************************)
Init ==
    \E rs \in RuleLists :
        /\ rules = constructor(rs)
        /\ newRules = rs
        /\ request = NoRequest
        /\ result = NoResult
        /\ observed = NoCall
        /\ oldRules = NoUpdate
        /\ HeapUnused
        /\ StepsUnused
        /\ AppUnused

UpdateRules(new) ==
    /\ rules' = updateRules(rules, new)
    /\ newRules' = new
    /\ request' = NoRequest
    /\ result' = NoResult

\* the scan consumes the list (shift() in place of for..of)
RouteRequestShift(req) ==
    /\ request' = req
    /\ result' = routeRequest(rules, req)
    /\ rules' = IF rules = <<>> THEN rules ELSE Tail(rules)
    /\ UNCHANGED newRules

\* the rule that answered is moved to the front of the list
RouteRequestMoveToFront(req) ==
    /\ request' = req
    /\ result' = routeRequest(rules, req)
    /\ LET hits == {i \in 1..Len(rules) :
                       ~methodMismatch(rules[i], req) /\ pathMatches(rules[i], req)}
       IN  IF hits = {} THEN rules' = rules
           ELSE LET i == CHOOSE h \in hits : \A k \in hits : h <= k
                IN  rules' = <<rules[i]>> \o SubSeq(rules, 1, i - 1)
                                 \o SubSeq(rules, i + 1, Len(rules))
    /\ UNCHANGED newRules

RouteRequest(req) ==
    /\ request' = req
    /\ result' = routeRequest(rules, req)
    /\ UNCHANGED <<rules, newRules>>

Update(new) == UpdateRules(new) /\ UNCHANGED <<observed, oldRules, heapVars, stepVars, appVars>>

Route(req) == RouteRequest(req) /\ UNCHANGED <<observed, oldRules, heapVars, stepVars, appVars>>

Next ==
    \/ \E new \in RuleLists : Update(new)
    \/ \E req \in Requests : Route(req)

Spec == Init /\ [][Next]_vars

\* routers that hold one rule, drawn from RuleUniverse
InitMatch ==
    \E rs \in SingleRuleLists :
        /\ rules = constructor(rs)
        /\ newRules = rs
        /\ request = NoRequest
        /\ result = NoResult
        /\ observed = NoCall
        /\ oldRules = NoUpdate
        /\ HeapUnused
        /\ StepsUnused
        /\ AppUnused

NextMatch ==
    \/ \E new \in SingleRuleLists : Update(new)
    \/ \E req \in AllRequests : Route(req)

SpecMatch == InitMatch /\ [][NextMatch]_vars

\* a caller that remembers the list it replaced and the first call it made
\* since, and whether it routed another request after that call
UpdateObserved(new) ==
    /\ UpdateRules(new)
    /\ oldRules' = [rules |-> rules]
    /\ observed' = NoCall
    /\ UNCHANGED <<heapVars, stepVars, appVars>>

RouteObserved(req) ==
    /\ RouteRequest(req)
    /\ observed' = IF observed = NoCall
                   THEN [request |-> req, result |-> result', between |-> FALSE]
                   ELSE [observed EXCEPT !.between = @ \/ req # observed.request]
    /\ UNCHANGED <<oldRules, heapVars, stepVars, appVars>>

InitHistory ==
    \E rs \in FewRuleLists :
        /\ rules = constructor(rs)
        /\ newRules = rs
        /\ request = NoRequest
        /\ result = NoResult
        /\ observed = NoCall
        /\ oldRules = NoUpdate
        /\ HeapUnused
        /\ StepsUnused
        /\ AppUnused

NextHistory ==
    \/ \E new \in FewRuleLists : UpdateObserved(new)
    \/ \E req \in FewRequests : RouteObserved(req)

SpecHistory == InitHistory /\ [][NextHistory]_vars

\* a caller that gives the router its own list back: oldRules holds the list
\* read from the accessor for as long as no other list has been given
InitReapply ==
    \E rs \in TiedRuleLists :
        /\ rules = constructor(rs)
        /\ newRules = rs
        /\ request = NoRequest
        /\ result = NoResult
        /\ observed = NoCall
        /\ oldRules = NoUpdate
        /\ HeapUnused
        /\ StepsUnused
        /\ AppUnused

UpdateFresh(new) ==
    /\ UpdateRules(new)
    /\ oldRules' = NoUpdate
    /\ UNCHANGED <<observed, heapVars, stepVars, appVars>>

\* router.updateRules([...router.rules])
ReapplyRules ==
    /\ UpdateRules(rulesGetter(rules))
    /\ oldRules' = [rules |-> rules]
    /\ UNCHANGED <<observed, heapVars, stepVars, appVars>>

NextReapply ==
    \/ \E new \in TiedRuleLists : UpdateFresh(new)
    \/ ReapplyRules
    \/ \E req \in FewRequests : Route(req)

SpecReapply == InitReapply /\ [][NextReapply]_vars

\* the router and a caller that keeps its array and changes it afterwards
InitHeap ==
    \E arr \in HeapLists :
        LET made == updateRulesHeap([EmptyHeap EXCEPT !["r1"] = arr], "r2", "r1")
        IN  /\ heap = made.heap
            /\ rulesRef = made.rulesRef
            /\ callerRef = "r1"
            /\ viewRef = NoRef
            /\ rules = made.heap[made.rulesRef]
            /\ newRules = arr
            /\ request = NoRequest
            /\ result = NoResult
            /\ observed = NoCall
            /\ oldRules = NoUpdate
            /\ StepsUnused
            /\ AppUnused

\* router.updateRules(callerArray)
HeapUpdateRules ==
    LET fresh == CHOOSE r \in Refs : r \notin {callerRef, viewRef}
        made  == updateRulesHeap(heap, fresh, callerRef)
    IN  /\ heap' = Collect(made.heap, {made.rulesRef, callerRef, viewRef})
        /\ rulesRef' = made.rulesRef
        /\ rules' = made.heap[made.rulesRef]
        /\ newRules' = heap[callerRef]
        /\ request' = NoRequest
        /\ result' = NoResult
        /\ UNCHANGED <<callerRef, viewRef, observed, oldRules, stepVars, appVars>>

\* the caller changes the array it handed over
CallerMutates ==
    \E m \in Mutations(heap[callerRef]) :
        /\ heap' = [heap EXCEPT ![callerRef] = m]
        /\ rules' = heap'[rulesRef]
        /\ UNCHANGED <<rulesRef, callerRef, viewRef, newRules, request, result,
                       observed, oldRules, stepVars, appVars>>

\* const view = router.rules
GetRules ==
    /\ viewRef' = rulesGetter(rulesRef)
    /\ heap' = Collect(heap, {rulesRef, callerRef, viewRef'})
    /\ UNCHANGED <<rules, rulesRef, callerRef, newRules, request, result,
                   observed, oldRules, stepVars, appVars>>

\* the caller changes the array the accessor returned
ViewMutates ==
    /\ viewRef # NoRef
    /\ \E m \in Mutations(heap[viewRef]) :
          /\ heap' = [heap EXCEPT ![viewRef] = m]
          /\ rules' = heap'[rulesRef]
    /\ UNCHANGED <<rulesRef, callerRef, viewRef, newRules, request, result,
                   observed, oldRules, stepVars, appVars>>

HeapRoute(req) ==
    /\ RouteRequest(req)
    /\ UNCHANGED <<observed, oldRules, heapVars, stepVars, appVars>>

NextCaller ==
    \/ HeapUpdateRules
    \/ CallerMutates
    \/ \E req \in HeapRequests : HeapRoute(req)

\* updateRules statement by statement.  The methods of the router are
\* synchronous: while updateRules is on the stack (pc = "sorting") no other
\* call of the router is served, and the sort is the only step that can follow.
InitSteps ==
    \E rs \in FewRuleLists :
        /\ rules = constructor(rs)
        /\ newRules = rs
        /\ request = NoRequest
        /\ result = NoResult
        /\ observed = NoCall
        /\ oldRules = NoUpdate
        /\ HeapUnused
        /\ StepsUnused
        /\ AppUnused

\* the old rules stay in the list and the new ones are added to it
UpdateAssignAppends(new) ==
    /\ pc = "idle"
    /\ rules' = rules \o new
    /\ newRules' = new
    /\ oldRules' = [rules |-> rules]
    /\ pc' = "sorting"
    /\ request' = NoRequest
    /\ result' = NoResult
    /\ scanned' = NoScan
    /\ UNCHANGED <<observed, heapVars, appVars>>

\* the method gives up the thread (an await) before it sorts
UpdateAssignYields(new) ==
    /\ pc = "idle"
    /\ rules' = new
    /\ newRules' = new
    /\ oldRules' = [rules |-> rules]
    /\ pc' = "yielded"
    /\ request' = NoRequest
    /\ result' = NoResult
    /\ scanned' = NoScan
    /\ UNCHANGED <<observed, heapVars, appVars>>

\* this._rules = [...newRules]
UpdateAssign(new) ==
    /\ pc = "idle"
    /\ rules' = new
    /\ newRules' = new
    /\ oldRules' = [rules |-> rules]
    /\ pc' = "sorting"
    /\ request' = NoRequest
    /\ result' = NoResult
    /\ scanned' = NoScan
    /\ UNCHANGED <<observed, heapVars, appVars>>

\* this._sortRules(), and updateRules returns
UpdateSort ==
    /\ pc # "idle"
    /\ rules' = sortRules(rules)
    /\ pc' = "idle"
    /\ UNCHANGED <<newRules, oldRules, request, result, scanned, observed, heapVars, appVars>>

StepRoute(req) ==
    /\ pc # "sorting"
    /\ RouteRequest(req)
    /\ scanned' = rules
    /\ UNCHANGED <<pc, oldRules, observed, heapVars, appVars>>

NextSteps ==
    \/ \E new \in FewRuleLists : UpdateAssign(new)
    \/ UpdateSort
    \/ \E req \in FewRequests : StepRoute(req)

SpecSteps == InitSteps /\ [][NextSteps]_vars

SpecCaller == InitHeap /\ [][NextCaller]_vars

NextView ==
    \/ HeapUpdateRules
    \/ CallerMutates
    \/ GetRules
    \/ ViewMutates
    \/ \E req \in HeapRequests : HeapRoute(req)

SpecView == InitHeap /\ [][NextView]_vars

(***************************************************************************)
(* ApiGatewayRouterSimulator (part_003): the page that holds one router,   *)
(* shows its rules and replaces them from a JSON text.  A JSON text is a   *)
(* sequence of tokens; an object literal is one token that carries the     *)
(* object it denotes.                                                      *)
(***************************************************************************)
defaultRules ==
    << [id |-> "rule-users-prefix", pathPrefix |-> <<"/", "u", "s", "e", "r", "s">>,
        targetService |-> "userService", priority |-> 10],
       [id |-> "rule-health-exact", exactPath |-> <<"/", "h", "e", "a", "l", "t", "h">>,
        targetService |-> "healthService", method |-> <<"G", "E", "T">>, priority |-> 20],
       [id |-> "rule-properties-prefix", pathPrefix |-> <<"/", "p", "r", "o", "p", "e", "r", "t", "i", "e", "s">>,
        targetService |-> "propertyService", priority |-> 5],
       [id |-> "rule-bookings-prefix", pathPrefix |-> <<"/", "b", "o", "o", "k", "i", "n", "g", "s">>,
        targetService |-> "bookingService", priority |-> 8],
       [id |-> "rule-admin-post", exactPath |-> <<"/", "a", "d", "m", "i", "n">>,
        targetService |-> "adminService", method |-> <<"P", "O", "S", "T">>, priority |-> 15],
       [id |-> "rule-admin-get-prefix", pathPrefix |-> <<"/", "a", "d", "m", "i", "n">>,
        targetService |-> "adminDashboardService", method |-> <<"G", "E", "T">>, priority |-> 10],
       [id |-> "rule-root-default", pathPrefix |-> <<"/">>,
        targetService |-> "defaultService", priority |-> 0] >>

Tok(s) == [t |-> s]

ObjectTok(obj) == [t |-> "object", v |-> obj]

SyntaxError == [ok |-> FALSE]

Parsed(value) == [ok |-> TRUE, value |-> value]

IsValueToken(k) == k.t \in {"object", "null", "number"}

valueOf(k) == IF k.t = "object" THEN [kind |-> "object", v |-> k.v] ELSE [kind |-> k.t]

\* text[i] is to be an element, followed by "," and more elements or by the
\* closing bracket at the end of the text
RECURSIVE parseItems(_, _, _)
parseItems(text, i, items) ==
    IF i + 1 > Len(text) \/ ~IsValueToken(text[i]) THEN SyntaxError
    ELSE IF text[i + 1].t = "]"
         THEN IF i + 1 = Len(text)
              THEN Parsed([kind |-> "array", items |-> Append(items, valueOf(text[i]))])
              ELSE SyntaxError
    ELSE IF text[i + 1].t = ","
         THEN parseItems(text, i + 2, Append(items, valueOf(text[i])))
    ELSE SyntaxError

JSONparse(text) ==
    IF Len(text) = 0 THEN SyntaxError
    ELSE IF Len(text) = 1
         THEN IF IsValueToken(text[1]) THEN Parsed(valueOf(text[1])) ELSE SyntaxError
    ELSE IF text[1].t # "[" THEN SyntaxError
    ELSE IF Len(text) = 2
         THEN IF text[2].t = "]" THEN Parsed([kind |-> "array", items |-> <<>>])
              ELSE SyntaxError
    ELSE parseItems(text, 2, <<>>)

RECURSIVE stringifyItems(_, _)
stringifyItems(arr, i) ==
    IF i > Len(arr) THEN <<>>
    ELSE IF i = Len(arr) THEN <<ObjectTok(arr[i])>>
    ELSE <<ObjectTok(arr[i]), Tok(",")>> \o stringifyItems(arr, i + 1)

JSONstringify(arr) == <<Tok("[")>> \o stringifyItems(arr, 1) \o <<Tok("]")>>

\* rule.id && rule.targetService, for the element of any kind: reading a
\* property of null throws, a number has no such property
truthyString(obj, field) == field \in DOMAIN obj /\ obj[field] # ""

RECURSIVE every(_, _)
every(items, i) ==
    IF i > Len(items) THEN "true"
    ELSE IF items[i].kind = "null" THEN "TypeError"
    ELSE IF items[i].kind = "number" THEN "false"
    ELSE IF truthyString(items[i].v, "id") /\ truthyString(items[i].v, "targetService")
         THEN every(items, i + 1)
    ELSE "false"

\* the rules are given to the router before they are looked at
handleUpdateRulesUnchecked(old, text) ==
    LET parsed == JSONparse(text)
    IN  IF ~parsed.ok THEN [rules |-> old, error |-> Err("SyntaxError")]
        ELSE IF parsed.value.kind # "array" THEN [rules |-> old, error |-> Err("format")]
        ELSE LET objects == [i \in 1..Len(parsed.value.items) |->
                                IF parsed.value.items[i].kind = "object"
                                THEN parsed.value.items[i].v
                                ELSE [id |-> "", targetService |-> ""]]
                 outcome == every(parsed.value.items, 1)
             IN  IF outcome = "true" THEN [rules |-> updateRules(old, objects), error |-> NoError]
                 ELSE [rules |-> updateRules(old, objects),
                       error |-> IF outcome = "false" THEN Err("format") ELSE Err(outcome)]

\* the try block of handleUpdateRules: the router's rules afterwards and the
\* error caught, if any
handleUpdateRules(old, text) ==
    LET parsed == JSONparse(text)
    IN  IF ~parsed.ok THEN [rules |-> old, error |-> Err("SyntaxError")]
        ELSE IF parsed.value.kind # "array" THEN [rules |-> old, error |-> Err("format")]
        ELSE LET outcome == every(parsed.value.items, 1)
             IN  IF outcome = "true"
                 THEN [rules |-> updateRules(old, [i \in 1..Len(parsed.value.items) |->
                                                        parsed.value.items[i].v]),
                       error |-> NoError]
                 ELSE [rules |-> old,
                       error |-> IF outcome = "false" THEN Err("format") ELSE Err(outcome)]

PathHealth == <<"/", "h", "e", "a", "l", "t", "h">>

NoId == [pathPrefix |-> PathA, targetService |-> "namelessService"]

NoTargetService == [id |-> "no-target", pathPrefix |-> PathA]

EmptyId == [id |-> "", pathPrefix |-> Root, targetService |-> "emptyIdService"]

SimRule(name) == CHOOSE r \in RulePool : r.id = name

SimTexts ==
    { <<>>,
      <<Tok("[")>>,
      <<Tok("["), ObjectTok(SimRule("root-default")), Tok(","), Tok("]")>>,
      <<ObjectTok(SimRule("root-default")), ObjectTok(SimRule("a-prefix"))>>,
      <<Tok("null")>>,
      <<Tok("number")>>,
      <<ObjectTok(SimRule("root-default"))>>,
      <<Tok("["), Tok("null"), Tok("]")>>,
      <<Tok("["), Tok("number"), Tok(","), Tok("null"), Tok("]")>>,
      <<Tok("["), ObjectTok(NoId), Tok("]")>>,
      <<Tok("["), ObjectTok(SimRule("root-default")), Tok(","),
        ObjectTok(NoTargetService), Tok("]")>>,
      <<Tok("["), ObjectTok(EmptyId), Tok("]")>>,
      JSONstringify(<<>>),
      JSONstringify(<<SimRule("dead")>>),
      JSONstringify(<<SimRule("root-default"), SimRule("a-prefix")>>),
      JSONstringify(<<SimRule("a-prefix"), SimRule("a-prefix")>>),
      JSONstringify(defaultRules) }

SimRequests == [path : {Root, PathA, PathHealth}, method : {GET, get, POST}]

\* new ApiGatewayRouter(defaultRules), the useState initial values, and the
\* effect that copies the router's rules to the display
InitSimulator ==
    /\ rules = constructor(defaultRules)
    /\ newRules = defaultRules
    /\ currentRules = rulesGetter(constructor(defaultRules))
    /\ rulesJsonInput = JSONstringify(defaultRules)
    /\ jsonError = NoError
    /\ request = NoRequest
    /\ result = NoResult
    /\ observed = NoCall
    /\ oldRules = NoUpdate
    /\ HeapUnused
    /\ StepsUnused
    /\ BookUnused
    /\ PayUnused

\* onChange of the rules editor
SetRulesJsonInput(text) ==
    /\ rulesJsonInput' = text
    /\ UNCHANGED <<rules, newRules, request, result, observed, oldRules,
                   heapVars, stepVars, currentRules, jsonError, bookVars, payVars>>

\* Apply New Rules
HandleUpdateRules ==
    LET done == handleUpdateRules(rules, rulesJsonInput)
    IN  /\ rules' = done.rules
        /\ newRules' = IF done.error = NoError THEN JSONparse(rulesJsonInput).value.items
                       ELSE newRules
        /\ currentRules' = IF done.error = NoError THEN rulesGetter(done.rules)
                           ELSE currentRules
        /\ jsonError' = done.error
        /\ UNCHANGED <<rulesJsonInput, request, result, observed, oldRules,
                       heapVars, stepVars, bookVars, payVars>>

\* Reset to Default Rules
ResetToDefaultRules ==
    /\ rulesJsonInput' = JSONstringify(defaultRules)
    /\ jsonError' = NoError
    /\ rules' = updateRules(rules, defaultRules)
    /\ newRules' = defaultRules
    /\ currentRules' = rulesGetter(updateRules(rules, defaultRules))
    /\ UNCHANGED <<request, result, observed, oldRules, heapVars, stepVars,
                   bookVars, payVars>>

\* Route Request: the method typed is put in upper case
HandleRouteRequest(req) ==
    /\ RouteRequest([path |-> req.path, method |-> toUpperCase(req.method)])
    /\ UNCHANGED <<observed, oldRules, heapVars, stepVars, simVars, bookVars, payVars>>

NextSimulator ==
    \/ \E text \in SimTexts : SetRulesJsonInput(text)
    \/ HandleUpdateRules
    \/ ResetToDefaultRules
    \/ \E req \in SimRequests : HandleRouteRequest(req)

SpecSimulator == InitSimulator /\ [][NextSimulator]_vars

(***************************************************************************)
(* BookingService (services/user/user.ts): the bookings table and the      *)
(* calls that read and write it.  A date is a string; new Date(string) is  *)
(* its time value, NaN for a string that is not a date, and every          *)
(* comparison with NaN is false.                                           *)
(***************************************************************************)
MaxBookings == 2

NaN == -1

Date(s) ==
    CASE s = "2029-12-31" -> 0
      [] s = "2030-01-01" -> 1
      [] s = "2030-01-02" -> 2
      [] s = "2030-01-03" -> 3
      [] OTHER -> NaN

\* a < b and a <= b on time values
lessThan(a, b) == a # NaN /\ b # NaN /\ a < b

lessOrEqual(a, b) == a # NaN /\ b # NaN /\ a <= b

\* new Date() with setHours(0, 0, 0, 0)
today == Date("2030-01-01")

Failure(message) == [success |-> FALSE, error |-> message]

\* the ends of the ranges count as overlapping (<= for <)
checkPropertyAvailabilityInclusive(rows, propertyId, checkInDate, checkOutDate, queryFails) ==
    IF propertyId = "" THEN Failure("Property ID is required")
    ELSE IF checkInDate = "" \/ checkOutDate = ""
         THEN Failure("Check-in and check-out dates are required")
    ELSE LET checkIn  == Date(checkInDate)
             checkOut == Date(checkOutDate)
         IN  IF lessOrEqual(checkOut, checkIn)
             THEN Failure("Check-out date must be after check-in date")
             ELSE IF queryFails THEN Failure("database error")
             ELSE LET selected(row) == /\ row.property_id = propertyId
                                       /\ row.status \in {"pending", "confirmed"}
                      data == SelectSeq(rows, selected)
                      hasConflict ==
                          \E i \in 1..Len(data) :
                              /\ lessOrEqual(checkIn, Date(data[i].check_out_date))
                              /\ lessOrEqual(Date(data[i].check_in_date), checkOut)
                  IN  [success |-> TRUE, isAvailable |-> ~hasConflict]

\* rows is the table when the select runs; queryFails: the select returns an
\* error or throws (both end in success: false)
checkPropertyAvailability(rows, propertyId, checkInDate, checkOutDate, queryFails) ==
    IF propertyId = "" THEN Failure("Property ID is required")
    ELSE IF checkInDate = "" \/ checkOutDate = ""
         THEN Failure("Check-in and check-out dates are required")
    ELSE LET checkIn  == Date(checkInDate)
             checkOut == Date(checkOutDate)
         IN  IF lessOrEqual(checkOut, checkIn)
             THEN Failure("Check-out date must be after check-in date")
             ELSE IF queryFails THEN Failure("database error")
             ELSE LET selected(row) == /\ row.property_id = propertyId
                                       /\ row.status \in {"pending", "confirmed"}
                      data == SelectSeq(rows, selected)
                      hasConflict ==
                          \E i \in 1..Len(data) :
                              /\ lessThan(checkIn, Date(data[i].check_out_date))
                              /\ lessThan(Date(data[i].check_in_date), checkOut)
                  IN  [success |-> TRUE, isAvailable |-> ~hasConflict]

Statuses == {"pending", "confirmed", "cancelled", "completed"}

StayDates == {"2030-01-01", "2030-01-02", "2030-01-03"}

\* the rows a table can hold: stays of property p1 of every status, and one
\* stay of property p2
BookingRows ==
    { [property_id |-> "p1", check_in_date |-> i, check_out_date |-> o, status |-> st] :
        i \in {"2030-01-01", "2030-01-02"}, o \in {"2030-01-02", "2030-01-03"},
        st \in Statuses }
    \cup { [property_id |-> "p2", check_in_date |-> "2030-01-01",
            check_out_date |-> "2030-01-03", status |-> "confirmed"] }

StoredRows == {row \in BookingRows : Date(row.check_in_date) < Date(row.check_out_date)}

BookingTables == SeqsUpTo(StoredRows, MaxBookings)

DateInputs == StayDates \cup {"", "not a date"}

InitAvailability ==
    /\ bookings \in BookingTables
    /\ availability = NoCheck
    /\ calls = [c \in Callers |-> Idle]
    /\ PayUnused
    /\ SimUnused
    /\ rules = <<>>
    /\ newRules = <<>>
    /\ request = NoRequest
    /\ result = NoResult
    /\ observed = NoCall
    /\ oldRules = NoUpdate
    /\ HeapUnused
    /\ StepsUnused

\* one call on each table: the call reads the table and leaves it as it is
CheckPropertyAvailability(propertyId, checkInDate, checkOutDate, queryFails) ==
    /\ availability = NoCheck
    /\ availability' =
          [propertyId |-> propertyId, checkInDate |-> checkInDate,
           checkOutDate |-> checkOutDate, queryFails |-> queryFails,
           response |-> checkPropertyAvailability(bookings, propertyId, checkInDate,
                                                  checkOutDate, queryFails)]
    /\ UNCHANGED <<bookings, calls, payVars, simVars, rules, newRules, request, result,
                   observed, oldRules, heapVars, stepVars>>

NextAvailability ==
    \E propertyId \in {"p1", "p2", ""}, checkInDate \in DateInputs,
       checkOutDate \in DateInputs, queryFails \in BOOLEAN :
        CheckPropertyAvailability(propertyId, checkInDate, checkOutDate, queryFails)

SpecAvailability == InitAvailability /\ [][NextAvailability]_vars

(***************************************************************************)
(* createBooking: the validation runs when the call is made; the select of *)
(* checkPropertyAvailability and the insert are two requests to the        *)
(* database, each awaited, and the calls of other callers can run between  *)
(* them.                                                                   *)
(***************************************************************************)
Valid == [isValid |-> TRUE]

Invalid(message) == [isValid |-> FALSE, error |-> message]

validateBookingData(bookingData) ==
    IF bookingData.propertyId = "" THEN Invalid("Property ID is required")
    ELSE IF bookingData.buyerId = "" THEN Invalid("Buyer ID is required")
    ELSE IF bookingData.checkInDate = "" THEN Invalid("Check-in date is required")
    ELSE IF bookingData.checkOutDate = "" THEN Invalid("Check-out date is required")
    ELSE LET checkIn  == Date(bookingData.checkInDate)
             checkOut == Date(bookingData.checkOutDate)
         IN  IF lessOrEqual(checkOut, checkIn)
             THEN Invalid("Check-out date must be after check-in date")
             ELSE IF lessThan(checkIn, today)
             THEN Invalid("Check-in date must be in the future")
             ELSE IF bookingData.guests <= 0 THEN Invalid("Guests must be at least 1")
             ELSE IF bookingData.totalAmount <= 0
             THEN Invalid("Total amount must be positive")
             ELSE Valid

Stay(propertyId, checkInDate, checkOutDate) ==
    [propertyId |-> propertyId, buyerId |-> "buyer", checkInDate |-> checkInDate,
     checkOutDate |-> checkOutDate, guests |-> 2, totalAmount |-> 100]

BookingRequests ==
    { Stay("p1", "2030-01-01", "2030-01-02"),
      Stay("p1", "2030-01-02", "2030-01-03"),
      Stay("p1", "2030-01-01", "2030-01-03"),
      Stay("p2", "2030-01-01", "2030-01-03"),
      Stay("", "2030-01-01", "2030-01-02"),
      [Stay("p1", "2030-01-01", "2030-01-02") EXCEPT !.buyerId = ""],
      Stay("p1", "", "2030-01-02"),
      Stay("p1", "2030-01-01", ""),
      Stay("p1", "2030-01-02", "2030-01-01"),
      Stay("p1", "2029-12-31", "2030-01-02"),
      [Stay("p1", "2030-01-01", "2030-01-02") EXCEPT !.guests = 0],
      [Stay("p1", "2030-01-01", "2030-01-02") EXCEPT !.totalAmount = 0] }

\* the row of the insert
insertedRow(bookingData) ==
    [property_id |-> bookingData.propertyId,
     check_in_date |-> bookingData.checkInDate,
     check_out_date |-> bookingData.checkOutDate,
     status |-> "pending"]

InFlight == {c \in Callers : calls[c].pc \in {"checking", "inserting"}}

Returned(call, response) == [call EXCEPT !.pc = "returned", !.response = response]

InitBooking ==
    /\ bookings = <<>>
    /\ availability = NoCheck
    /\ calls = [c \in Callers |-> Idle]
    /\ PayUnused
    /\ SimUnused
    /\ rules = <<>>
    /\ newRules = <<>>
    /\ request = NoRequest
    /\ result = NoResult
    /\ observed = NoCall
    /\ oldRules = NoUpdate
    /\ HeapUnused
    /\ StepsUnused

\* createBooking up to its first await
CreateBookingStart(c, bookingData) ==
    /\ calls[c].pc \in {"idle", "returned"}
    /\ Len(bookings) + Cardinality(InFlight) < MaxBookings
    /\ LET validation == validateBookingData(bookingData)
           call == [pc |-> "checking", data |-> bookingData, validation |-> validation,
                    check |-> NoCheck, inserted |-> FALSE, response |-> NoResult]
       IN  calls' = [calls EXCEPT ![c] =
                        IF validation.isValid THEN call
                        ELSE Returned(call, Failure(validation.error))]
    /\ UNCHANGED <<bookings, availability, payVars, simVars, rules, newRules, request,
                   result, observed, oldRules, heapVars, stepVars>>

\* the insert is made whatever the availability answer is
CreateBookingCheckUnheeded(c, queryFails) ==
    /\ calls[c].pc = "checking"
    /\ LET data == calls[c].data
           availabilityCheck ==
               checkPropertyAvailability(bookings, data.propertyId, data.checkInDate,
                                         data.checkOutDate, queryFails)
           call == [calls[c] EXCEPT !.check = availabilityCheck]
       IN  calls' = [calls EXCEPT ![c] =
                        IF ~availabilityCheck.success
                        THEN Returned(call, Failure(availabilityCheck.error))
                        ELSE [call EXCEPT !.pc = "inserting"]]
    /\ UNCHANGED <<bookings, availability, payVars, simVars, rules, newRules, request,
                   result, observed, oldRules, heapVars, stepVars>>

\* the select of checkPropertyAvailability reaches the database, and
\* createBooking runs up to its second await
CreateBookingCheck(c, queryFails) ==
    /\ calls[c].pc = "checking"
    /\ LET data == calls[c].data
           availabilityCheck ==
               checkPropertyAvailability(bookings, data.propertyId, data.checkInDate,
                                         data.checkOutDate, queryFails)
           call == [calls[c] EXCEPT !.check = availabilityCheck]
       IN  calls' = [calls EXCEPT ![c] =
                        IF ~availabilityCheck.success
                        THEN Returned(call, Failure(availabilityCheck.error))
                        ELSE IF ~availabilityCheck.isAvailable
                        THEN Returned(call,
                                Failure("Property is not available for the selected dates"))
                        ELSE [call EXCEPT !.pc = "inserting"]]
    /\ UNCHANGED <<bookings, availability, payVars, simVars, rules, newRules, request,
                   result, observed, oldRules, heapVars, stepVars>>

\* the insert reaches the database, and createBooking returns
CreateBookingInsert(c, insertFails) ==
    /\ calls[c].pc = "inserting"
    /\ IF insertFails
       THEN /\ calls' = [calls EXCEPT ![c] = Returned(calls[c], Failure("database error"))]
            /\ UNCHANGED bookings
       ELSE /\ bookings' = Append(bookings, insertedRow(calls[c].data))
            /\ calls' = [calls EXCEPT ![c] =
                            Returned([calls[c] EXCEPT !.inserted = TRUE],
                                     [success |-> TRUE,
                                      booking |-> insertedRow(calls[c].data)])]
    /\ UNCHANGED <<availability, payVars, simVars, rules, newRules, request,
                   result, observed, oldRules, heapVars, stepVars>>

\* cancelBooking(bookingId) for the id of a stored row
CancelBooking(i, updateFails) ==
    /\ i \in 1..Len(bookings)
    /\ bookings' = IF updateFails THEN bookings
                   ELSE [bookings EXCEPT ![i].status = "cancelled"]
    /\ UNCHANGED <<availability, calls, payVars, simVars, rules, newRules, request,
                   result, observed, oldRules, heapVars, stepVars>>

NextBooking ==
    \/ \E c \in Callers, bookingData \in BookingRequests : CreateBookingStart(c, bookingData)
    \/ \E c \in Callers, queryFails \in BOOLEAN : CreateBookingCheck(c, queryFails)
    \/ \E c \in Callers, insertFails \in BOOLEAN : CreateBookingInsert(c, insertFails)
    \/ \E i \in 1..MaxBookings, updateFails \in BOOLEAN : CancelBooking(i, updateFails)

SpecBooking == InitBooking /\ [][NextBooking]_vars

(***************************************************************************)
(* PaymentService (services/user/user.ts, payment part): the payments      *)
(* table, and Stripe with its payment intents and refunds.  Each call is   *)
(* taken with the outcomes of its requests to Stripe and to the database.  *)
(***************************************************************************)
MaxRefunds == 2

PaymentIds == {"pay1", "pay2"}

IntentIds == {"pi1"}

IntentStatuses == {"succeeded", "processing", "requires_payment_method", "canceled"}

PaymentStatuses == {"pending", "completed", "failed", "refunded"}

RefundReasons == {"duplicate", "fraudulent", "requested_by_customer"}

\* getPayment: a row, or the failure of select ... single()
getPayment(table, paymentId, selectFails) ==
    IF paymentId = "" THEN Failure("Payment ID is required")
    ELSE IF selectFails \/ paymentId \notin DOMAIN table THEN Failure("database error")
    ELSE [success |-> TRUE,
          payment |-> [id |-> paymentId,
                       stripePaymentIntentId |-> table[paymentId].stripe_payment_intent_id,
                       status |-> table[paymentId].status]]

\* the table and the refunds at Stripe after the call, its response, and
\* whether the call wrote the status
createRefund(table, issued, refundData, selectFails, stripeFails, updateFails) ==
    LET unchanged(response) == [payments |-> table, refunds |-> issued,
                                response |-> response, wrote |-> FALSE]
    IN  IF refundData.paymentId = "" THEN unchanged(Failure("Payment ID is required"))
        ELSE IF refundData.amount <= 0
             THEN unchanged(Failure("Refund amount must be positive"))
        ELSE IF refundData.reason \notin RefundReasons
             THEN unchanged(Failure("Invalid refund reason"))
        ELSE LET paymentResponse == getPayment(table, refundData.paymentId, selectFails)
             IN  IF ~paymentResponse.success THEN unchanged(Failure("Payment not found"))
                 ELSE IF paymentResponse.payment.stripePaymentIntentId = ""
                 THEN unchanged(Failure("Payment does not have a Stripe payment intent"))
                 ELSE IF stripeFails THEN unchanged(Failure("Refund failed"))
                 ELSE LET refunded ==
                              Append(issued, paymentResponse.payment.stripePaymentIntentId)
                      IN  IF updateFails
                          THEN [payments |-> table, refunds |-> refunded,
                                response |-> Failure("database error"), wrote |-> FALSE]
                          ELSE [payments |->
                                    [table EXCEPT ![refundData.paymentId].status = "refunded"],
                                refunds |-> refunded,
                                response |-> [success |-> TRUE,
                                              refund |-> [reason |-> refundData.reason]],
                                wrote |-> TRUE]

\* rows of the table whose stripe_payment_intent_id is the one given
matching(table, paymentIntentId) ==
    {p \in DOMAIN table : table[p].stripe_payment_intent_id = paymentIntentId}

\* every intent that has not failed counts as paid
confirmPaymentUnlessFailed(table, stripe, paymentIntentId, retrieveFails, updateFails) ==
    IF paymentIntentId = ""
    THEN [payments |-> table, response |-> Failure("Payment intent ID is required")]
    ELSE IF retrieveFails \/ paymentIntentId \notin DOMAIN stripe
    THEN [payments |-> table, response |-> Failure("Payment intent not found")]
    ELSE IF stripe[paymentIntentId] \notin {"requires_payment_method", "canceled"}
    THEN IF updateFails \/ Cardinality(matching(table, paymentIntentId)) # 1
         THEN [payments |-> table, response |-> Failure("database error")]
         ELSE LET p == CHOOSE q \in matching(table, paymentIntentId) : TRUE
              IN  [payments |-> [table EXCEPT ![p].status = "completed"],
                   response |-> [success |-> TRUE,
                                 payment |-> [id |-> p, status |-> "completed"]]]
    ELSE [payments |-> table,
          response |-> Failure(<<"Payment not completed. Status: ", stripe[paymentIntentId]>>)]

\* the table after the call and its response; update ... single() fails
\* unless one row has the intent id
confirmPayment(table, stripe, paymentIntentId, retrieveFails, updateFails) ==
    IF paymentIntentId = ""
    THEN [payments |-> table, response |-> Failure("Payment intent ID is required")]
    ELSE IF retrieveFails \/ paymentIntentId \notin DOMAIN stripe
    THEN [payments |-> table, response |-> Failure("Payment intent not found")]
    ELSE IF stripe[paymentIntentId] = "succeeded"
    THEN IF updateFails \/ Cardinality(matching(table, paymentIntentId)) # 1
         THEN [payments |-> table, response |-> Failure("database error")]
         ELSE LET p == CHOOSE q \in matching(table, paymentIntentId) : TRUE
              IN  [payments |-> [table EXCEPT ![p].status = "completed"],
                   response |-> [success |-> TRUE,
                                 payment |-> [id |-> p, status |-> "completed"]]]
    ELSE [payments |-> table,
          response |-> Failure(<<"Payment not completed. Status: ", stripe[paymentIntentId]>>)]

RefundRequests ==
    [paymentId : {"pay1", "pay2", "pay9", ""}, amount : {0, 50},
     reason : {"requested_by_customer", "other"}]

\* pay1 was made with the intent pi1 (createPaymentIntent), pay2 has no intent
InitPayment ==
    /\ \E st \in {"pending", "completed"} :
          payments = [p \in PaymentIds |->
                        IF p = "pay1"
                        THEN [stripe_payment_intent_id |-> "pi1", status |-> st]
                        ELSE [stripe_payment_intent_id |-> "", status |-> "pending"]]
    /\ intents \in [IntentIds -> IntentStatuses]
    /\ refunds = <<>>
    /\ payCall = NoCall
    /\ BookUnused
    /\ SimUnused
    /\ rules = <<>>
    /\ newRules = <<>>
    /\ request = NoRequest
    /\ result = NoResult
    /\ observed = NoCall
    /\ oldRules = NoUpdate
    /\ HeapUnused
    /\ StepsUnused

CreateRefund(refundData, selectFails, stripeFails, updateFails) ==
    /\ Len(refunds) < MaxRefunds
    /\ LET done == createRefund(payments, refunds, refundData, selectFails,
                                stripeFails, updateFails)
       IN  /\ payments' = done.payments
           /\ refunds' = done.refunds
           /\ payCall' = [op |-> "createRefund", refundData |-> refundData,
                          before |-> payments, refundsBefore |-> refunds,
                          wrote |-> done.wrote, response |-> done.response]
    /\ UNCHANGED <<intents, bookVars, simVars, rules, newRules, request, result,
                   observed, oldRules, heapVars, stepVars>>

ConfirmPayment(paymentIntentId, retrieveFails, updateFails) ==
    /\ LET done == confirmPayment(payments, intents, paymentIntentId, retrieveFails,
                                  updateFails)
       IN  /\ payments' = done.payments
           /\ payCall' = [op |-> "confirmPayment", paymentIntentId |-> paymentIntentId,
                          before |-> payments, retrieveFails |-> retrieveFails,
                          response |-> done.response]
    /\ UNCHANGED <<intents, refunds, bookVars, simVars, rules, newRules, request, result,
                   observed, oldRules, heapVars, stepVars>>

\* Stripe moves an intent to another status; payCall is reset, it describes
\* the state right after a call
StripeIntentChanges(paymentIntentId, status) ==
    /\ intents[paymentIntentId] # status
    /\ intents' = [intents EXCEPT ![paymentIntentId] = status]
    /\ payCall' = NoCall
    /\ UNCHANGED <<payments, refunds, bookVars, simVars, rules, newRules, request, result,
                   observed, oldRules, heapVars, stepVars>>

NextPayment ==
    \/ \E refundData \in RefundRequests, selectFails, stripeFails, updateFails \in BOOLEAN :
          CreateRefund(refundData, selectFails, stripeFails, updateFails)
    \/ \E paymentIntentId \in IntentIds \cup {"pi9", ""},
          retrieveFails, updateFails \in BOOLEAN :
          ConfirmPayment(paymentIntentId, retrieveFails, updateFails)
    \/ \E paymentIntentId \in IntentIds, status \in IntentStatuses :
          StripeIntentChanges(paymentIntentId, status)

SpecPayment == InitPayment /\ [][NextPayment]_vars

(***************************************************************************)
(* What the specification says of a single rule, stated on characters and  *)
(* independently of the operators above.                                   *)
(***************************************************************************)
CasePairs ==
    {<<"g", "G">>, <<"e", "E">>, <<"t", "T">>, <<"p", "P">>, <<"o", "O">>, <<"s", "S">>}

SameLetter(c, d) == c = d \/ <<c, d>> \in CasePairs \/ <<d, c>> \in CasePairs

EqualIgnoringCase(s, t) ==
    Len(s) = Len(t) /\ \A i \in 1..Len(s) : SameLetter(s[i], t[i])

SameString(s, t) == Len(s) = Len(t) /\ \A i \in 1..Len(s) : s[i] = t[i]

IsPrefixOf(p, s) == Len(p) <= Len(s) /\ \A i \in 1..Len(p) : s[i] = p[i]

\* a field counts as set when it carries a non-empty string
IsSet(rule, field) == field \in DOMAIN rule /\ Len(rule[field]) > 0

PriorityOf(rule) == IF "priority" \in DOMAIN rule THEN rule.priority ELSE 0

AcceptsMethod(rule, req) ==
    IsSet(rule, "method") => EqualIgnoringCase(rule.method, req.method)

AcceptsPath(rule, req) ==
    IF IsSet(rule, "exactPath") THEN SameString(req.path, rule.exactPath)
    ELSE IsSet(rule, "pathPrefix") /\ IsPrefixOf(rule.pathPrefix, req.path)

Accepts(rule, req) == AcceptsMethod(rule, req) /\ AcceptsPath(rule, req)

Remainder(p, s) == [i \in 1..(Len(s) - Len(p)) |-> s[i + Len(p)]]

ForwardedPath(rule, req) ==
    IF IsSet(rule, "exactPath") THEN req.path
    ELSE LET rem == Remainder(rule.pathPrefix, req.path)
         IN  IF Len(rem) = 0 THEN <<"/">>
             ELSE IF rem[1] # "/" THEN <<"/">> \o rem
             ELSE rem

Routed == request # NoRequest

Positions == 1..Len(rules)

Accepting == {i \in Positions : Accepts(rules[i], request)}

FirstAccepting == CHOOSE i \in Accepting : \A j \in Accepting : i <= j

(***************************************************************************)
(* C1: routeRequest returns the targetService and the computed path of the *)
(* first rule of the sorted list that passes the method filter and the     *)
(* path test; rules failing either test are skipped, later rules do not    *)
(* influence the result.                                                   *)
(***************************************************************************)
FirstPassingRuleWins ==
    Routed =>
        IF Accepting = {} THEN result = Null
        ELSE result = [targetService |-> rules[FirstAccepting].targetService,
                       targetPath    |-> ForwardedPath(rules[FirstAccepting], request)]

\* GET-only exact /a is skipped for POST /a, which falls to the catch-all
FirstPassingRuleWinsWitness ==
    /\ Routed
    /\ Len(rules) = 2
    /\ rules[1].id = "a-exact" /\ rules[2].id = "root-default"
    /\ request = [path |-> PathA, method |-> POST]
    /\ result = [targetService |-> "defaultService", targetPath |-> PathA]

(***************************************************************************)
(* C2: if two rules of the sequence given to the constructor or to         *)
(* updateRules both pass the method filter and the path test, the one of   *)
(* strictly lower priority (absent counting as 0) never wins, wherever the *)
(* two stand in that sequence.                                             *)
(***************************************************************************)
HigherPriorityWins ==
    Routed =>
        \A i, j \in 1..Len(newRules) :
            ( /\ Accepts(newRules[i], request)
              /\ Accepts(newRules[j], request)
              /\ PriorityOf(newRules[i]) > PriorityOf(newRules[j]) )
            => /\ result # Null
               /\ result.targetService # newRules[j].targetService

\* the priority 1 rule is given after the priority 0 catch-all, and wins
HigherPriorityWinsWitness ==
    /\ Routed
    /\ Len(newRules) = 2
    /\ newRules[1].id = "root-default" /\ newRules[2].id = "a-prefix-any"
    /\ request = [path |-> PathAB, method |-> GET]
    /\ result = [targetService |-> "anyService", targetPath |-> <<"/", "b">>]

(***************************************************************************)
(* C3: with equal priority a rule with exactPath set stands before every   *)
(* rule with only pathPrefix, whatever the lengths of the two paths, and   *)
(* when both match a request the prefix rule does not win.                 *)
(***************************************************************************)
PrefixOnly(rule) == IsSet(rule, "pathPrefix") /\ ~IsSet(rule, "exactPath")

ExactBeforePrefix ==
    \A i, j \in Positions :
        ( /\ PriorityOf(rules[i]) = PriorityOf(rules[j])
          /\ IsSet(rules[i], "exactPath")
          /\ PrefixOnly(rules[j]) )
        => /\ i < j
           /\ (Routed /\ Accepts(rules[i], request) /\ Accepts(rules[j], request))
                => (result # Null /\ result.targetService # rules[j].targetService)

\* exact /a and the catch-all prefix / tie on priority and both match GET /a
ExactBeforePrefixWitness ==
    /\ Routed
    /\ Len(newRules) = 2
    /\ newRules[1].id = "root-default" /\ newRules[2].id = "a-exact"
    /\ rules[1].id = "a-exact" /\ rules[2].id = "root-default"
    /\ request = [path |-> PathA, method |-> GET]
    /\ result = [targetService |-> "exactService", targetPath |-> PathA]

(***************************************************************************)
(* C4: a rule that specifies a method passes the method filter iff its     *)
(* method equals the request's ignoring case; a rule without a method      *)
(* passes it for every request method.  (A method counts as specified when *)
(* it is a non-empty string.)                                              *)
(***************************************************************************)
MethodFilterIgnoresCase ==
    Routed =>
        \A i \in Positions :
            /\ IsSet(rules[i], "method") =>
                 (~methodMismatch(rules[i], request)
                    <=> EqualIgnoringCase(rules[i].method, request.method))
            /\ ~IsSet(rules[i], "method") => ~methodMismatch(rules[i], request)
            /\ (Len(rules) = 1 /\ AcceptsPath(rules[i], request)) =>
                 ((result # Null) <=>
                    (IsSet(rules[i], "method")
                       => EqualIgnoringCase(rules[i].method, request.method)))

\* the rule says get, the request GET
MethodFilterIgnoresCaseWitness ==
    /\ Routed
    /\ Len(rules) = 1
    /\ IsSet(rules[1], "method") /\ rules[1].method = get
    /\ request.method = GET
    /\ result # Null

PrefixTestForEveryString ==
    Routed =>
        \A i \in Positions :
            ("pathPrefix" \in DOMAIN rules[i] /\ "exactPath" \notin DOMAIN rules[i]) =>
                /\ pathMatches(rules[i], request)
                     <=> IsPrefixOf(rules[i].pathPrefix, request.path)
                /\ (Len(rules) = 1 /\ AcceptsMethod(rules[i], request)) =>
                     ((result # Null) <=> IsPrefixOf(rules[i].pathPrefix, request.path))

(***************************************************************************)
(* C7: when a prefix rule wins, targetPath is the remainder of the path    *)
(* after the prefix: "/" for an empty remainder, the remainder with "/"    *)
(* put in front when it does not start with "/", the remainder otherwise.  *)
(***************************************************************************)
PrefixStripped ==
    (Routed /\ Len(rules) = 1 /\ result # Null /\ ~IsSet(rules[1], "exactPath")) =>
        LET rem == Remainder(rules[1].pathPrefix, request.path)
        IN  /\ rules[1].pathPrefix \o rem = request.path
            /\ rem = <<>> => result.targetPath = <<"/">>
            /\ (rem # <<>> /\ rem[1] # "/") => result.targetPath = <<"/">> \o rem
            /\ (rem # <<>> /\ rem[1] = "/") => result.targetPath = rem

\* prefix /a against /ab: the remainder b is forwarded as /b
PrefixStrippedWitness ==
    /\ Routed
    /\ Len(rules) = 1
    /\ ~IsSet(rules[1], "exactPath")
    /\ IsSet(rules[1], "pathPrefix") /\ rules[1].pathPrefix = PathA
    /\ request.path = PathAb
    /\ result # Null /\ result.targetPath = <<"/", "b">>

(***************************************************************************)
(* C8: routeRequest returns null exactly when no rule of the active list   *)
(* passes both tests; a non-null result carries the targetService of a     *)
(* rule of the active list; a router given the empty list returns null     *)
(* for every request.                                                      *)
(***************************************************************************)
NullIffNoRuleAccepts ==
    Routed =>
        /\ (result = Null) <=> (Accepting = {})
        /\ result # Null =>
             \E i \in Positions : result.targetService = rules[i].targetService
        /\ newRules = <<>> => result = Null

\* the empty rule list and the path /
NullIffNoRuleAcceptsWitness ==
    /\ Routed
    /\ newRules = <<>> /\ rules = <<>>
    /\ request.path = Root
    /\ result = Null

(***************************************************************************)
(* C9: after updateRules(N) the result of every routeRequest is that of a  *)
(* fresh router constructed with N, whatever the rule list before.         *)
(***************************************************************************)
UpdateReplacesRules ==
    /\ rules = constructor(newRules)
    /\ Routed => result = routeRequest(constructor(newRules), request)

\* GET /a matched the exact rule of the old list and now falls to the
\* catch-all, the only rule of the new one
UpdateReplacesRulesWitness ==
    /\ Routed
    /\ oldRules # NoUpdate
    /\ Len(oldRules.rules) = 2 /\ oldRules.rules[1].id = "a-exact"
    /\ Len(newRules) = 1 /\ newRules[1].id = "root-default"
    /\ request = [path |-> PathA, method |-> GET]
    /\ routeRequest(oldRules.rules, request).targetService = "exactService"
    /\ result = [targetService |-> "defaultService", targetPath |-> PathA]

(***************************************************************************)
(* C10: between two updateRules calls, calls of routeRequest with the same *)
(* request return the same result, whichever other requests were routed in *)
(* between.                                                                *)
(***************************************************************************)
SameRequestSameResult ==
    (Routed /\ observed # NoCall /\ request = observed.request)
        => result = observed.result

\* the first request is routed again after a different one
SameRequestSameResultWitness ==
    /\ Routed
    /\ observed # NoCall
    /\ observed.between
    /\ request = observed.request
    /\ result = observed.result
    /\ result # Null

RootPrefixKeepsPath ==
    ( /\ Routed /\ Len(rules) = 1 /\ result # Null
      /\ PrefixOnly(rules[1]) /\ rules[1].pathPrefix = Root )
    => result.targetPath = request.path

(***************************************************************************)
(* The rank the ordering is built from, stated on the rule.                *)
(***************************************************************************)
LiteralPath(rule) ==
    IF IsSet(rule, "exactPath") THEN rule.exactPath
    ELSE IF IsSet(rule, "pathPrefix") THEN rule.pathPrefix
    ELSE <<>>

SameClass(a, b) == IsSet(a, "exactPath") <=> IsSet(b, "exactPath")

SameRank(a, b) ==
    /\ PriorityOf(a) = PriorityOf(b)
    /\ SameClass(a, b)
    /\ Len(LiteralPath(a)) = Len(LiteralPath(b))

Reordered(seq) ==
    {[i \in 1..Len(seq) |-> seq[f[i]]] : f \in Permutations(1..Len(seq))}

(***************************************************************************)
(* C17: the order of the rules in the sequence given to the constructor or *)
(* to updateRules is not significant: a router given any permutation of    *)
(* the sequence returns the same result for every request.                 *)
(***************************************************************************)
OrderInsignificant ==
    Routed =>
        \A other \in Reordered(newRules) :
            routeRequest(constructor(other), request) = result

(***************************************************************************)
(* C17, amended: a router given any permutation of the sequence returns    *)
(* the same result for a request, unless two different rules that both     *)
(* accept the request tie on priority, specificity class and path length.  *)
(***************************************************************************)
OrderInsignificantUnlessTied ==
    ( /\ Routed
      /\ \A i, j \in 1..Len(newRules) :
            ( /\ Accepts(newRules[i], request)
              /\ Accepts(newRules[j], request)
              /\ SameRank(newRules[i], newRules[j]) )
            => newRules[i] = newRules[j] )
    => \A other \in Reordered(newRules) :
           routeRequest(constructor(other), request) = result

\* the exact rule of priority -1 is given first, the prefix rule of priority
\* 0 second; given in the other order the result is the same
OrderInsignificantUnlessTiedWitness ==
    /\ Routed
    /\ Len(newRules) = 2
    /\ newRules[1].id = "ab-both" /\ newRules[2].id = "ab-prefix"
    /\ request = [path |-> PathAB, method |-> GET]
    /\ result = [targetService |-> "deepService", targetPath |-> Root]
    /\ routeRequest(constructor(<<newRules[2], newRules[1]>>), request) = result

(***************************************************************************)
(* C18: among rules of equal priority and the same specificity class the   *)
(* rule with the longer literal path (exactPath, else pathPrefix, else     *)
(* the empty string) stands first; of two equal-priority prefix rules      *)
(* that both match a request, the one with the shorter prefix does not win.*)
(***************************************************************************)
LongerPathFirst ==
    \A i, j \in Positions :
        ( /\ PriorityOf(rules[i]) = PriorityOf(rules[j])
          /\ SameClass(rules[i], rules[j])
          /\ Len(LiteralPath(rules[i])) > Len(LiteralPath(rules[j])) )
        => /\ i < j
           /\ ( /\ Routed
                /\ PrefixOnly(rules[i]) /\ PrefixOnly(rules[j])
                /\ Accepts(rules[i], request) /\ Accepts(rules[j], request) )
                => (result # Null /\ result.targetService # rules[j].targetService)

\* the catch-all "/" is given before the prefix /a/b of the same priority
LongerPathFirstWitness ==
    /\ Routed
    /\ Len(newRules) = 2
    /\ newRules[1].id = "root-default" /\ newRules[2].id = "ab-prefix"
    /\ rules[1].id = "ab-prefix" /\ rules[2].id = "root-default"
    /\ request = [path |-> PathAB, method |-> POST]
    /\ result = [targetService |-> "deepService", targetPath |-> Root]

(***************************************************************************)
(* C19: the sort is stable: rules that tie on priority, specificity class  *)
(* and path length keep in the sorted list the relative order of the       *)
(* sequence given, and of two tied rules that both match a request the one *)
(* given earlier wins (a rule given more than once counts from its first   *)
(* place in the sequence).                                                 *)
(***************************************************************************)
StableSort ==
    /\ \A k \in 1..Len(newRules) :
         LET tied(rule) == SameRank(rule, newRules[k])
         IN  SelectSeq(rules, tied) = SelectSeq(newRules, tied)
    /\ Routed =>
         \A i, j \in 1..Len(newRules) :
            ( /\ i < j
              /\ newRules[i] # newRules[j]
              /\ \A k \in 1..(j - 1) : newRules[k] # newRules[j]
              /\ SameRank(newRules[i], newRules[j])
              /\ Accepts(newRules[i], request)
              /\ Accepts(newRules[j], request) )
            => (result # Null /\ result.targetService # newRules[j].targetService)

\* two prefix rules /a of priority 1: the one given first wins
StableSortWitness ==
    /\ Routed
    /\ Len(newRules) = 2
    /\ newRules[1].id = "a-prefix-any" /\ newRules[2].id = "a-prefix"
    /\ rules = newRules
    /\ request = [path |-> PathAB, method |-> GET]
    /\ result = [targetService |-> "anyService", targetPath |-> <<"/", "b">>]

PrivateCopy ==
    /\ [][HeapUpdateRules => heap'[callerRef] = heap[callerRef]]_vars
    /\ [][CallerMutates => rules' = rules]_vars
    /\ heap[callerRef] = newRules
    /\ [](Routed => result = routeRequest(constructor(newRules), request))

\* the caller emptied its array after the call; the router still routes by
\* the two rules it was given, in sorted order
PrivateCopyWitness ==
    /\ Routed
    /\ Len(newRules) = 2
    /\ newRules[1].id = "root-default" /\ newRules[2].id = "a-exact"
    /\ heap[callerRef] = <<>>
    /\ Len(rules) = 2 /\ rules[1].id = "a-exact" /\ rules[2].id = "root-default"
    /\ request = [path |-> PathA, method |-> GET]
    /\ result = [targetService |-> "exactService", targetPath |-> PathA]

(***************************************************************************)
(* C14: the value the rules accessor returns cannot be used to corrupt the *)
(* router's list: when the caller adds, removes, reorders or replaces      *)
(* elements of the returned array, the router's active list stays as it    *)
(* was.                                                                    *)
(***************************************************************************)
AccessorCannotCorrupt == [][ViewMutates => rules' = rules]_vars

(***************************************************************************)
(* The order of two rules in a sorted list, stated on the rank.            *)
(***************************************************************************)
InOrder(a, b) ==
    \/ PriorityOf(a) > PriorityOf(b)
    \/ /\ PriorityOf(a) = PriorityOf(b)
       /\ \/ IsSet(a, "exactPath") /\ ~IsSet(b, "exactPath")
          \/ SameClass(a, b) /\ Len(LiteralPath(a)) >= Len(LiteralPath(b))

Sorted(seq) == \A i, j \in 1..Len(seq) : i < j => InOrder(seq[i], seq[j])

(***************************************************************************)
(* C15: updateRules is atomic for routeRequest: the list a routeRequest    *)
(* scans holds the rules of one rule set, all of them and no others, never *)
(* a mixture of old and new or a part; once updateRules(N) has returned,   *)
(* a routeRequest scans N.                                                 *)
(***************************************************************************)
ScansOneRuleSet ==
    Routed =>
        /\ \/ scanned \in Reordered(newRules)
           \/ /\ oldRules # NoUpdate
              /\ pc # "idle"
              /\ scanned = oldRules.rules
        /\ pc = "idle" => scanned \in Reordered(newRules)

\* [a-exact] was replaced by [root-default, a-prefix]; the next call scans
\* the two new rules and not the old one
ScansOneRuleSetWitness ==
    /\ Routed
    /\ pc = "idle"
    /\ oldRules # NoUpdate
    /\ Len(oldRules.rules) = 1 /\ oldRules.rules[1].id = "a-exact"
    /\ Len(newRules) = 2
    /\ newRules[1].id = "root-default" /\ newRules[2].id = "a-prefix"
    /\ Len(scanned) = 2
    /\ scanned[1].id = "a-prefix" /\ scanned[2].id = "root-default"

(***************************************************************************)
(* C16: a routeRequest reads one fully sorted snapshot: its result is that *)
(* of routing against the completely sorted old list or against the        *)
(* completely sorted new list, and the new list is not visible to          *)
(* routeRequest before it is sorted.                                       *)
(***************************************************************************)
ReadsSortedSnapshot ==
    Routed =>
        /\ Sorted(scanned)
        /\ \/ scanned = sortRules(newRules)
           \/ oldRules # NoUpdate /\ scanned = oldRules.rules
        /\ \/ result = routeRequest(sortRules(newRules), request)
           \/ /\ oldRules # NoUpdate
              /\ result = routeRequest(sortRules(oldRules.rules), request)

\* [root-default, a-prefix] is given unsorted; get /a is routed by the sorted
\* list, to the prefix rule of priority 1 and not to the catch-all
ReadsSortedSnapshotWitness ==
    /\ Routed
    /\ oldRules # NoUpdate
    /\ oldRules.rules = <<>>
    /\ Len(newRules) = 2
    /\ newRules[1].id = "root-default" /\ newRules[2].id = "a-prefix"
    /\ scanned # newRules
    /\ request = [path |-> PathA, method |-> GET]
    /\ result = [targetService |-> "prefixService", targetPath |-> Root]

(***************************************************************************)
(* C21: a rule with neither exactPath nor pathPrefix never wins, whatever  *)
(* its priority, method or place; updateRules takes it into the list, and  *)
(* the result is the one the list gives without its dead rules.            *)
(***************************************************************************)
DeadRule(rule) == ~IsSet(rule, "exactPath") /\ ~IsSet(rule, "pathPrefix")

LiveRule(rule) == ~DeadRule(rule)

DeadRuleNeverWins ==
    /\ \A i \in 1..Len(newRules) :
          DeadRule(newRules[i]) => \E j \in Positions : rules[j] = newRules[i]
    /\ Routed =>
          /\ \A i \in Positions :
                (DeadRule(rules[i]) /\ result # Null)
                    => result.targetService # rules[i].targetService
          /\ result = routeRequest(constructor(SelectSeq(newRules, LiveRule)), request)

\* the dead rule of priority 2 is first in the list and the catch-all of
\* priority 0 behind it answers
DeadRuleNeverWinsWitness ==
    /\ Routed
    /\ Len(rules) = 2
    /\ rules[1].id = "dead" /\ rules[2].id = "root-default"
    /\ request = [path |-> PathA, method |-> POST]
    /\ result = [targetService |-> "defaultService", targetPath |-> PathA]

(***************************************************************************)
(* C22: routeRequest leaves the active rule list as it is: a step that     *)
(* routes a request, matching or not, keeps the same rules in the same     *)
(* order, so every routeRequest works on the order the last updateRules    *)
(* computed from the sequence it was given.                                *)
(***************************************************************************)
RouteKeepsRules ==
    /\ [][Routed' => rules' = rules]_vars
    /\ [](Routed => (Sorted(rules) /\ rules \in Reordered(newRules)))

\* POST /a passes over the prefix rule for get and is answered by the
\* catch-all behind it; the list is as the update left it
RouteKeepsRulesWitness ==
    /\ Routed
    /\ Len(newRules) = 2
    /\ newRules[1].id = "root-default" /\ newRules[2].id = "a-prefix"
    /\ Len(rules) = 2
    /\ rules[1].id = "a-prefix" /\ rules[2].id = "root-default"
    /\ request = [path |-> PathA, method |-> POST]
    /\ result = [targetService |-> "defaultService", targetPath |-> PathA]

(***************************************************************************)
(* C23: after construction and after every updateRules(R) the list of the  *)
(* rules accessor holds exactly the rules of R, as many times as R holds   *)
(* them (nothing rejected, dropped or deduplicated), and every adjacent    *)
(* pair is in non-increasing priority, then exactPath rules before         *)
(* prefix-only rules, then non-increasing path length.                     *)
(***************************************************************************)
AllRulesKeptInOrder ==
    /\ Len(rules) = Len(newRules)
    /\ \A rule \in RulePool :
          Cardinality({i \in Positions : rules[i] = rule})
              = Cardinality({i \in 1..Len(newRules) : newRules[i] = rule})
    /\ \A i \in 1..(Len(rules) - 1) :
          \/ PriorityOf(rules[i]) > PriorityOf(rules[i + 1])
          \/ /\ PriorityOf(rules[i]) = PriorityOf(rules[i + 1])
             /\ IsSet(rules[i], "exactPath") /\ ~IsSet(rules[i + 1], "exactPath")
          \/ /\ PriorityOf(rules[i]) = PriorityOf(rules[i + 1])
             /\ IsSet(rules[i], "exactPath") <=> IsSet(rules[i + 1], "exactPath")
             /\ Len(LiteralPath(rules[i])) >= Len(LiteralPath(rules[i + 1]))

\* the same exact rule given twice is kept twice
DuplicateRulesKept ==
    /\ ~Routed
    /\ Len(newRules) = 2 /\ newRules[1] = newRules[2]
    /\ newRules[1].id = "a-exact"
    /\ rules = newRules

\* a dead rule of priority 2 given last is kept and comes first
AllRulesKeptInOrderWitness ==
    /\ ~Routed
    /\ Len(newRules) = 2
    /\ newRules[1].id = "ab-prefix" /\ newRules[2].id = "dead"
    /\ Len(rules) = 2
    /\ rules[1].id = "dead" /\ rules[2].id = "ab-prefix"

(***************************************************************************)
(* C24: giving the router a copy of its own sorted list changes nothing:   *)
(* after updateRules([...router.rules]) the active list is in the order it *)
(* had before, and every routeRequest has the result the list gave before. *)
(***************************************************************************)
ReapplyIsNoOp ==
    oldRules # NoUpdate =>
        /\ rules = oldRules.rules
        /\ newRules = oldRules.rules
        /\ Routed => result = routeRequest(oldRules.rules, request)

\* two tied prefix rules /a, given back in the order the router holds them:
\* the one that was first still answers
ReapplyIsNoOpWitness ==
    /\ oldRules # NoUpdate
    /\ Len(rules) = 2
    /\ rules[1].id = "a-prefix-any" /\ rules[2].id = "a-prefix"
    /\ Routed
    /\ request = [path |-> PathA, method |-> GET]
    /\ result = [targetService |-> "anyService", targetPath |-> Root]

(***************************************************************************)
(* The rules editor of the simulator: what a text is, stated on its tokens. *)
(***************************************************************************)
IsArrayText(text) ==
    /\ Len(text) >= 2
    /\ text[1].t = "[" /\ text[Len(text)].t = "]"
    /\ Len(text) > 2 =>
          /\ Len(text) % 2 = 1
          /\ \A i \in 2..(Len(text) - 1) :
                IF i % 2 = 0 THEN text[i].t \in {"object", "null", "number"}
                ELSE text[i].t = ","

LacksField(tok) ==
    \/ tok.t # "object"
    \/ "id" \notin DOMAIN tok.v
    \/ "targetService" \notin DOMAIN tok.v

BadInput(text) ==
    \/ ~IsArrayText(text)
    \/ \E i \in 2..(Len(text) - 1) : i % 2 = 0 /\ LacksField(text[i])

Ids(seq) == [i \in 1..Len(seq) |-> seq[i].id]

DefaultOrder ==
    <<"rule-health-exact", "rule-admin-post", "rule-users-prefix",
      "rule-admin-get-prefix", "rule-bookings-prefix", "rule-properties-prefix",
      "rule-root-default">>

(***************************************************************************)
(* C25: in the simulator, Apply New Rules on a text that is not JSON, is   *)
(* not an array or has an element without id or targetService leaves the   *)
(* router's rules and the rules on display as they are and sets an error   *)
(* message; the router's rules change only on a text whose elements all    *)
(* have both fields, or on Reset to Default Rules, which always gives the  *)
(* same order of the default rules.                                        *)
(***************************************************************************)
SimulatorRejectsBadInput ==
    /\ [][(HandleUpdateRules /\ BadInput(rulesJsonInput))
              => (rules' = rules /\ currentRules' = currentRules
                    /\ jsonError' # NoError)]_vars
    /\ [][rules' # rules => (~BadInput(rulesJsonInput) \/ ResetToDefaultRules)]_vars
    /\ [][ResetToDefaultRules
              => (Ids(rules') = DefaultOrder /\ currentRules' = rules'
                    /\ jsonError' = NoError)]_vars

\* after [a-prefix, root-default] was applied, a text whose second element
\* has no targetService is refused: the error is shown, the rules stay
SimulatorRejectsBadInputWitness ==
    /\ jsonError = Err("format")
    /\ rulesJsonInput = <<Tok("["), ObjectTok(SimRule("root-default")), Tok(","),
                          ObjectTok(NoTargetService), Tok("]")>>
    /\ Ids(rules) = <<"a-prefix", "root-default">>
    /\ currentRules = rules

(***************************************************************************)
(* The bookings table: what a stay is, stated on calendar days.            *)
(***************************************************************************)
DayOf(s) ==
    IF s = "2029-12-31" THEN 0
    ELSE IF s = "2030-01-01" THEN 1
    ELSE IF s = "2030-01-02" THEN 2
    ELSE 3

IsDay(s) == s \in {"2029-12-31", "2030-01-01", "2030-01-02", "2030-01-03"}

Blocks(row, propertyId, checkInDate, checkOutDate) ==
    /\ row.property_id = propertyId
    /\ row.status \in {"pending", "confirmed"}
    /\ DayOf(checkInDate) < DayOf(row.check_out_date)
    /\ DayOf(checkOutDate) > DayOf(row.check_in_date)

Checked == availability # NoCheck

ProperRange ==
    /\ IsDay(availability.checkInDate) /\ IsDay(availability.checkOutDate)
    /\ DayOf(availability.checkOutDate) > DayOf(availability.checkInDate)

Blocked ==
    \E i \in 1..Len(bookings) :
        Blocks(bookings[i], availability.propertyId, availability.checkInDate,
               availability.checkOutDate)

ReportsUnavailable ==
    availability.response.success /\ ~availability.response.isAvailable

(***************************************************************************)
(* C26 as stated: for checkOut after checkIn, checkPropertyAvailability    *)
(* reports isAvailable = false iff a pending or confirmed booking of the   *)
(* property overlaps the range (checkIn < its checkOut and checkOut > its  *)
(* checkIn); a range with checkOut <= checkIn yields success: false.       *)
(***************************************************************************)
UnavailableIffBlocked ==
    Checked =>
        /\ ProperRange => (ReportsUnavailable <=> Blocked)
        /\ ( /\ IsDay(availability.checkInDate) /\ IsDay(availability.checkOutDate)
             /\ DayOf(availability.checkOutDate) <= DayOf(availability.checkInDate) )
           => ~availability.response.success

(***************************************************************************)
(* C26 amended: the same, for the calls whose query of the bookings table  *)
(* succeeds: for a property id and checkOut after checkIn the call answers *)
(* (success: true) iff the query succeeds, and the answer isAvailable is   *)
(* false iff such a booking overlaps; when the query fails the call yields *)
(* success: false and no availability answer.                              *)
(***************************************************************************)
UnavailableIffBlockedWhenAnswered ==
    Checked =>
        /\ (ProperRange /\ availability.propertyId # "") =>
              (availability.response.success <=> ~availability.queryFails)
        /\ (ProperRange /\ availability.response.success) =>
              (availability.response.isAvailable <=> ~Blocked)
        /\ ( /\ IsDay(availability.checkInDate) /\ IsDay(availability.checkOutDate)
             /\ DayOf(availability.checkOutDate) <= DayOf(availability.checkInDate) )
           => ~availability.response.success

\* a cancelled stay of days 1-3 does not block, a confirmed stay of days 1-2
\* does not block the stay 2-3 that begins the day it ends
UnavailableIffBlockedWhenAnsweredWitness ==
    /\ Checked
    /\ Len(bookings) = 2
    /\ bookings[1] = [property_id |-> "p1", check_in_date |-> "2030-01-01",
                      check_out_date |-> "2030-01-03", status |-> "cancelled"]
    /\ bookings[2] = [property_id |-> "p1", check_in_date |-> "2030-01-01",
                      check_out_date |-> "2030-01-02", status |-> "confirmed"]
    /\ availability.propertyId = "p1"
    /\ availability.checkInDate = "2030-01-02"
    /\ availability.checkOutDate = "2030-01-03"
    /\ availability.response = [success |-> TRUE, isAvailable |-> TRUE]

(***************************************************************************)
(* C27: createBooking inserts a row only after validateBookingData has     *)
(* passed and checkPropertyAvailability has returned isAvailable true, and *)
(* the row inserted has status pending; when the validation fails, or the  *)
(* availability check errors or reports a conflict, createBooking returns  *)
(* success: false with the corresponding error and inserts no row.         *)
(***************************************************************************)
Unavailable == "Property is not available for the selected dates"

InsertOnlyWhenValidAndAvailable ==
    /\ [][Len(bookings') > Len(bookings) =>
            \E c \in Callers :
                /\ calls[c].pc = "inserting"
                /\ calls[c].validation.isValid
                /\ calls[c].check = [success |-> TRUE, isAvailable |-> TRUE]
                /\ Len(bookings') = Len(bookings) + 1
                /\ SubSeq(bookings', 1, Len(bookings)) = bookings
                /\ LET row == bookings'[Len(bookings')]
                   IN  /\ row.status = "pending"
                       /\ row.property_id = calls[c].data.propertyId
                       /\ row.check_in_date = calls[c].data.checkInDate
                       /\ row.check_out_date = calls[c].data.checkOutDate
                /\ calls'[c].pc = "returned" /\ calls'[c].response.success]_vars
    /\ [](\A c \in Callers :
            calls[c].pc = "returned" =>
                /\ ~calls[c].validation.isValid =>
                      /\ calls[c].response = Failure(calls[c].validation.error)
                      /\ calls[c].check = NoCheck
                      /\ ~calls[c].inserted
                /\ (calls[c].check # NoCheck /\ ~calls[c].check.success) =>
                      /\ calls[c].response = Failure(calls[c].check.error)
                      /\ ~calls[c].inserted
                /\ (calls[c].check # NoCheck /\ calls[c].check.success
                        /\ ~calls[c].check.isAvailable) =>
                      /\ calls[c].response = Failure(Unavailable)
                      /\ ~calls[c].inserted
                /\ calls[c].response.success <=> calls[c].inserted)

\* the stay 1-3 of p1 is stored as pending; the second caller's stay 2-3 of
\* p1 is refused by the availability check and nothing is inserted for it
InsertOnlyWhenValidAndAvailableWitness ==
    /\ Len(bookings) = 1
    /\ bookings[1] = [property_id |-> "p1", check_in_date |-> "2030-01-01",
                      check_out_date |-> "2030-01-03", status |-> "pending"]
    /\ calls["c1"].pc = "returned" /\ calls["c1"].inserted
    /\ calls["c2"].pc = "returned"
    /\ calls["c2"].data = Stay("p1", "2030-01-02", "2030-01-03")
    /\ calls["c2"].check = [success |-> TRUE, isAvailable |-> FALSE]
    /\ calls["c2"].response = Failure(Unavailable)
    /\ ~calls["c2"].inserted

(***************************************************************************)
(* C28: under any interleaving of createBooking calls the table never      *)
(* holds two pending or confirmed bookings of one property whose date      *)
(* ranges overlap (a.checkIn < b.checkOut and a.checkOut > b.checkIn).     *)
(***************************************************************************)
Active(row) == row.status \in {"pending", "confirmed"}

Overlap(a, b) ==
    /\ a.property_id = b.property_id
    /\ DayOf(a.check_in_date) < DayOf(b.check_out_date)
    /\ DayOf(a.check_out_date) > DayOf(b.check_in_date)

NoDoubleBooking ==
    \A i, j \in 1..Len(bookings) :
        (i < j /\ Active(bookings[i]) /\ Active(bookings[j]))
            => ~Overlap(bookings[i], bookings[j])

(***************************************************************************)
(* C29: after a createRefund call the status of the payment was set to     *)
(* refunded by the call iff the call created a refund at Stripe; whenever  *)
(* the call returns success: false, no refund was issued at Stripe and the *)
(* stored status is as before.                                             *)
(***************************************************************************)
RefundCalled == payCall # NoCall /\ payCall.op = "createRefund"

RefundIssued == refunds # payCall.refundsBefore

RefundedIffStripeRefunded ==
    RefundCalled =>
        /\ payCall.wrote <=> RefundIssued
        /\ payCall.wrote =>
              payments[payCall.refundData.paymentId].status = "refunded"
        /\ ~payCall.response.success => (~RefundIssued /\ payments = payCall.before)

(***************************************************************************)
(* C30: confirmPayment sets the status of a payment to completed only when *)
(* the Stripe payment intent of the id given has status succeeded; for any *)
(* other status of the intent, or when retrieving it throws, it returns    *)
(* success: false and writes nothing to the payments table.                *)
(***************************************************************************)
ConfirmCalled == payCall # NoCall /\ payCall.op = "confirmPayment"

IntentSucceeded ==
    /\ ~payCall.retrieveFails
    /\ payCall.paymentIntentId \in DOMAIN intents
    /\ intents[payCall.paymentIntentId] = "succeeded"

CompletedOnlyWhenSucceeded ==
    ConfirmCalled =>
        /\ payments # payCall.before =>
              /\ IntentSucceeded
              /\ payCall.response.success
              /\ \A p \in PaymentIds :
                    payments[p] # payCall.before[p] =>
                        /\ payments[p].status = "completed"
                        /\ payments[p].stripe_payment_intent_id = payCall.paymentIntentId
        /\ ~IntentSucceeded => (~payCall.response.success /\ payments = payCall.before)
        /\ payCall.response.success =>
              \E p \in PaymentIds :
                  /\ payments[p].stripe_payment_intent_id = payCall.paymentIntentId
                  /\ payments[p].status = "completed"

\* the intent pi1 is still processing: the call fails and pay1 stays pending
CompletedOnlyWhenSucceededWitness ==
    /\ ConfirmCalled
    /\ payCall.paymentIntentId = "pi1"
    /\ ~payCall.retrieveFails
    /\ intents["pi1"] = "processing"
    /\ payments["pay1"].status = "pending"
    /\ ~payCall.response.success

====
